---------------------------- MODULE Spec2Model ----------------------------
(***************************************************************************)
(* The fuzzy-query dispatcher of goWeb: SubmitFuzzyQuery and               *)
(* GetFuzzyQueryResult (work/handle), the fuzzy-query consumer             *)
(* (startFuzzyQueryConsumer) and the Redis keys they share: the cache      *)
(* entry fuzzy:cache:<md5>, the lock fuzzy:lock:<md5> and the request      *)
(* status query-result:<uuid>.                                             *)
(*                                                                         *)
(* Every Redis command and the MQ publish is one atomic step; a handler    *)
(* is the sequence of its commands, so that handlers, workers and the      *)
(* passing of time interleave between any two commands.  Time is kept as   *)
(* the remaining TTL (in seconds) of every key, and the clock moves from   *)
(* one expiry to the next: no step of the program reads it in between.     *)
(*                                                                         *)
(* Spec is the program with the key/value store answering every command;   *)
(* a failed publish and a submitter that dies between two commands are     *)
(* part of it.                                                             *)
(***************************************************************************)
EXTENDS Integers, Sequences, FiniteSets, TLC

(***************************************************************************)
(* Bounds of the model.                                                    *)
(***************************************************************************)
\* number of SubmitFuzzyQuery requests made in a run
MaxReqs == 2
\* number of selectReadClient callers running at once
MaxReaders == 2
\* number of messages waiting when the consumer starts
MaxMsgs == 9
\* number of worker panics in a run
MaxPanics == 1
\* number of iterations of the refresh loop in a run
MaxRefreshes == 2

\* the keywords the clients ask for; "" is the missing parameter.  Keywords
\* are interchangeable, so the first call of a run asks for the first one.
Keywords == {"weather", "news"}
FirstKeyword == "weather"
EmptyKeyword == ""
\* c.GetString("user_type") as set by PublicJWTMiddleware
UserTypes == {"vip", "normal"}

(***************************************************************************)
(* Program constants.                                                      *)
(***************************************************************************)
UserTypeVIP == "vip"
ResultCachePrefix == "query-result:"
FuzzyCachePrefix == "fuzzy:cache:"
FuzzyLockPrefix == "fuzzy:lock:"
\* 10 * time.Minute, in seconds
FuzzyCacheExpire == 600
\* 5 * time.Second
LockExpire == 5
\* 5 * time.Minute, in seconds
ReqStatusExpire == 300
\* priority of a VIP caller's message
VipPriority == 10
\* concurrency := 8
Concurrency == 8
\* a key with no expiry set (Redis TTL -1)
NoExpiry == -1

(***************************************************************************)
(* Keys.                                                                   *)
(***************************************************************************)
\* md5 of the keyword: one digest per keyword
generateKeywordHash(keyword) == <<"md5", keyword>>

GetFuzzyCacheKey(keyword) == <<FuzzyCachePrefix, generateKeywordHash(keyword)>>

GetFuzzyLockKey(keyword) == <<FuzzyLockPrefix, generateKeywordHash(keyword)>>

\* uuid.NewString(): the n-th identifier drawn; no two draws are equal
GenerateReqID(n) == <<"uuid", n>>

ReqStatusKey(reqID) == <<ResultCachePrefix, reqID>>

ReqIds == 1..MaxReqs
CacheKeys == {GetFuzzyCacheKey(k) : k \in Keywords}
LockKeys == {GetFuzzyLockKey(k) : k \in Keywords}
\* request ids a client may poll with: the issued ones and one never issued
PollIds == {GenerateReqID(n) : n \in 0..MaxReqs}
ReqStatusKeys == {ReqStatusKey(id) : id \in PollIds}

(***************************************************************************)
(* Values: Go values and their JSON text.                                  *)
(***************************************************************************)
\* a Go interface{} holding a result list: nil, or a list of n documents
GoNil == [isNil |-> TRUE, n |-> 0]
GoList(n) == [isNil |-> FALSE, n |-> n]
\* what GetMongoDataFuzzyByKeyword returns: (nil, err) or (list, nil)
SearchOutcomes == {[list |-> GoNil, err |-> TRUE],
                   [list |-> GoList(0), err |-> FALSE],
                   [list |-> GoList(1), err |-> FALSE]}

\* a serializer that writes an empty list as it writes nil
jsonMarshalEmptyAsNull(v) == IF v.isNil \/ v.n = 0 THEN "null" ELSE "[doc]"

\* json.Marshal
jsonMarshal(v) == IF v.isNil THEN "null" ELSE IF v.n = 0 THEN "[]" ELSE "[doc]"

\* json.Unmarshal into a nil interface{}: on a syntax error (the empty
\* text of a missing field too) the target keeps nil
jsonUnmarshal(s) ==
    CASE s = "null" -> GoNil
      [] s = "[]" -> GoList(0)
      [] s = "[doc]" -> GoList(1)
      [] OTHER -> GoNil

(***************************************************************************)
(* Redis: hashes, strings and expiry.                                      *)
(***************************************************************************)
\* a key that does not exist; reading a field of it gives ""
NoHash == [exists |-> FALSE, ttl |-> 0, status |-> "", data |-> "",
           keyword |-> "", cache_key |-> <<>>]
NoString == [exists |-> FALSE, ttl |-> 0, val |-> <<>>]

\* HSET key status s keyword k ...: creates the key with no expiry, or
\* overwrites the given fields of the existing hash and keeps the others
HSetLoading(h, keyword) ==
    [h EXCEPT !.exists = TRUE, !.ttl = IF h.exists THEN h.ttl ELSE NoExpiry,
              !.status = "loading", !.keyword = keyword]

\* a write of the result that sets the status and leaves the payload out
HSetStatusOnly(h, resultJSON) ==
    [h EXCEPT !.exists = TRUE, !.ttl = IF h.exists THEN h.ttl ELSE NoExpiry,
              !.status = "ready"]

HSetReady(h, resultJSON) ==
    [h EXCEPT !.exists = TRUE, !.ttl = IF h.exists THEN h.ttl ELSE NoExpiry,
              !.status = "ready", !.data = resultJSON]

HSetPending(h, keyword, cacheKey) ==
    [h EXCEPT !.exists = TRUE, !.ttl = IF h.exists THEN h.ttl ELSE NoExpiry,
              !.status = "pending", !.keyword = keyword, !.cache_key = cacheKey]

\* EXPIRE key seconds: no effect on a key that does not exist
Expire(h, seconds) == IF h.exists THEN [h EXCEPT !.ttl = seconds] ELSE h

\* a test-and-set that does not test: every caller is told it took the lock
SetNXOkAlways(s) == TRUE

\* SET key val NX EX seconds, as one atomic command
SetNXOk(s) == ~s.exists

\* a SET without NX: the value and the lifetime are written over a held key
SetStore(s, val, seconds) == [exists |-> TRUE, ttl |-> seconds, val |-> val]

SetNXStore(s, val, seconds) ==
    IF s.exists THEN s ELSE [exists |-> TRUE, ttl |-> seconds, val |-> val]

\* a store that keeps a key whose lifetime has run out
AgedLingers(e, none, d) ==
    IF e.exists /\ e.ttl # NoExpiry
    THEN [e EXCEPT !.ttl = IF e.ttl <= d THEN NoExpiry ELSE e.ttl - d]
    ELSE e

\* the key d seconds later
Aged(e, none, d) ==
    IF e.exists /\ e.ttl # NoExpiry /\ e.ttl <= d THEN none
    ELSE IF e.exists /\ e.ttl # NoExpiry THEN [e EXCEPT !.ttl = e.ttl - d]
    ELSE e


(***************************************************************************)
(* RabbitMQ: the fuzzy-query queue.                                        *)
(***************************************************************************)
\* the message SubmitFuzzyQuery publishes: {"keyword": keyword}, with the
\* caller's priority; id is the delivery's identity
WorkItem(id, keyword, priority) ==
    [id |-> id, keyword |-> keyword, priority |-> priority]

\* a body that json.Unmarshal cannot read into a map[string]string
NotJSON == "{"

\* PublishPriorityMQ when the broker takes the message
PublishPriorityMQ(q, msg) == Append(q, msg)

\* the queue without its i-th message
RemoveAt(q, i) == [j \in 1..(Len(q) - 1) |-> IF j < i THEN q[j] ELSE q[j + 1]]

(***************************************************************************)
(* HTTP responses (until.Response / until.BusinessError).                  *)
(***************************************************************************)
NoResp == [code |-> -1, data |-> GoNil, req_id |-> <<>>, progress |-> 0]
RespData(data) == [NoResp EXCEPT !.code = 0, !.data = data]
RespPolling(reqID) == [NoResp EXCEPT !.code = 1, !.req_id = reqID]
RespProgress(reqID, p) == [NoResp EXCEPT !.code = 1, !.req_id = reqID, !.progress = p]
RespError(code) == [NoResp EXCEPT !.code = code]
\* a switch that matches no case writes nothing: Gin answers 200 with no body
RespNone == [NoResp EXCEPT !.code = 200]

(***************************************************************************)
(* State.                                                                  *)
(***************************************************************************)
VARIABLES
    lock,         \* fuzzy:lock:<md5>  -> string key
    cache,        \* fuzzy:cache:<md5> -> hash
    reqStatus,    \* query-result:<uuid> -> hash
    queue,        \* messages of fuzzy-query-queue not yet delivered
    jobs,         \* deliveries being processed by worker goroutines
    req,          \* the SubmitFuzzyQuery calls
    poll,         \* the GetFuzzyQueryResult call in progress, and its answer
    winPubs,      \* history: per lock, messages published under the present
                  \*   lock by calls whose SetNX met that same lock
    loadingPubs,  \* history: per entry, messages published in its present
                  \*   loading period
    epochHandles, \* history: per entry, handles issued to calls made since the
                  \*   entry was last ready or expired
    epochPubs,    \* history: per entry, messages published by those calls
    orphan,       \* history: per entry, a lock holder marked it loading and
                  \*   ended without a message, and none was published since
    sem,          \* number of tokens in the consumer's channel sem
    panics,       \* number of worker panics so far
    slaveClients, \* r.slaveClients: the replica connections, in order
    closedClients, \* the connections on which Close was called
    mu,           \* r.mu: the writer and the number of readers holding it
    refresher,    \* refreshSlaveClientsLoop: its position and locals
    reader,       \* the selectReadClient calls: their position and locals
    search,       \* GetMongoDataFuzzyByKeyword: its position, goroutines and channels
    dedup         \* a deduplicateAndSort call: its arguments and what it returned

vars == <<lock, cache, reqStatus, queue, jobs, req, poll,
          winPubs, loadingPubs, epochHandles, epochPubs, orphan,
          sem, panics, slaveClients, closedClients, mu, refresher, reader,
          search, dedup>>

store == <<lock, cache, reqStatus>>
hist == <<winPubs, loadingPubs, epochHandles, epochPubs, orphan>>
pool == <<sem, panics>>
replica == <<slaveClients, closedClients, mu, refresher, reader>>
dispatcher == <<store, queue, jobs, req, poll, hist, pool>>
mongo == <<search, dedup>>

\* the connections: the primary, and one per replica address and refresh
\* (generation 0 is NewRedisManager's); NoClient is the nil pointer
Conn(gen, addr) == [gen |-> gen, addr |-> addr]
masterClient == Conn(0, "master")
NoClient == Conn(0, "")

\* a manager whose accessor hands out a replica connection when it has one
GetMasterClientFromReplicas ==
    IF slaveClients # <<>> THEN slaveClients[1] ELSE masterClient

\* RedisManger.GetMasterClient: the field masterClient, which nothing assigns
\* after NewRedisManager
GetMasterClient == masterClient

\* a call not yet made.  status, lockSuccess and writeClient are the handler's
\* locals; seen, fresh, healing, lockSeen and published are history
IdleReq == [pc |-> "idle", keyword |-> "", status |-> "", lockSuccess |-> FALSE,
            writeClient |-> NoClient,
            resp |-> NoResp, seen |-> "", fresh |-> FALSE, healing |-> FALSE,
            lockSeen |-> <<>>, published |-> FALSE]

\* a call that has answered: its locals are gone
Answered(keyword, resp) == [IdleReq EXCEPT !.pc = "done", !.keyword = keyword, !.resp = resp]

IdlePoll == [pc |-> "idle", reqID |-> <<>>, cacheKey |-> <<>>,
             seenHandle |-> FALSE, seenStatus |-> "", seenData |-> "",
             resp |-> NoResp]

\* sync.RWMutex
MuFree == [writer |-> FALSE, readers |-> 0]

\* the refresh loop waiting for its ticker; addrs, err and slaveClients are
\* the locals of one iteration, gen counts the iterations
IdleRefresher == [pc |-> "wait", gen |-> 0, addrs |-> <<>>, err |-> FALSE,
                  slaveClients |-> <<>>]

\* a selectReadClient call not in progress; n is the length passed to Intn,
\* client and err are what the last call returned, outcome says how it ended
\* and, once the caller has used the client, how its read went
IdleReader == [pc |-> "idle", n |-> 0, client |-> NoClient, err |-> FALSE,
               outcome |-> ""]

Readers == 1..MaxReaders

\* no search has started: names are the collections listed, colls the
\* goroutines (their position and their local results), ret what the call
\* returned
IdleSearch == [pc |-> "idle", names |-> <<>>, colls |-> <<>>,
               resultChan |-> <<>>, errChan |-> <<>>, wg |-> 0,
               ret |-> [list |-> <<>>, isNil |-> TRUE, err |-> FALSE]]

\* no deduplicateAndSort call has been made
IdleDedup == [pc |-> "idle", docs |-> <<>>, limit |-> 0, out |-> <<>>]

\* no search is running
InitMongo ==
    /\ search = IdleSearch
    /\ dedup = IdleDedup

\* the consumer has admitted nothing
InitPool ==
    /\ sem = 0
    /\ panics = 0

\* a manager that found no replica at start, its refresh loop not yet run
InitNoReplica ==
    /\ slaveClients = <<>>
    /\ closedClients = {}
    /\ mu = MuFree
    /\ refresher = IdleRefresher
    /\ reader = [p \in Readers |-> IdleReader]

Init ==
    /\ lock = [k \in LockKeys |-> NoString]
    /\ cache = [k \in CacheKeys |-> NoHash]
    /\ reqStatus = [k \in ReqStatusKeys |-> NoHash]
    /\ queue = <<>>
    /\ jobs = {}
    /\ req = [r \in ReqIds |-> IdleReq]
    /\ poll = IdlePoll
    /\ winPubs = [k \in LockKeys |-> 0]
    /\ loadingPubs = [k \in CacheKeys |-> 0]
    /\ epochHandles = [k \in CacheKeys |-> 0]
    /\ epochPubs = [k \in CacheKeys |-> 0]
    /\ orphan = [k \in CacheKeys |-> FALSE]
    /\ InitPool
    /\ InitMongo
    /\ InitNoReplica

(***************************************************************************)
(* SubmitFuzzyQuery.                                                       *)
(***************************************************************************)
\* a read that reports the status of the entry it could not decode
GetDataByKeyWithStatus(h) ==
    IF h.exists /\ h.status = "ready"
    THEN [data |-> jsonUnmarshal(h.data),
          status |-> IF jsonUnmarshal(h.data).isNil THEN h.status ELSE ""]
    ELSE [data |-> GoNil, status |-> h.status]

\* RedisManger.GetDataByKey: (data, status); the payload of a ready entry
\* with status "", else nil with the entry's status ("" when there is none)
GetDataByKey(h) ==
    IF h.exists /\ h.status = "ready"
    THEN [data |-> jsonUnmarshal(h.data), status |-> ""]
    ELSE [data |-> GoNil, status |-> h.status]

\* priority of the message: 10 for a VIP caller, else the zero value
PriorityOf(userType) == IF userType = UserTypeVIP THEN VipPriority ELSE 0

\* step 5's condition without its test of the status
ShouldPublishAnyStatus(lockSuccess, status) == lockSuccess

\* step 5's condition: lockSuccess && status != "loading"
ShouldPublish(lockSuccess, status) == lockSuccess /\ status # "loading"

\* calls are made in the order of their numbers
NextCall(r) == req[r].pc = "idle" /\ \A q \in ReqIds : q < r => req[q].pc # "idle"

KeywordsOf(r) == IF r = 1 THEN {FirstKeyword} ELSE Keywords

\* keyword == "": 400, before any command
SubmitBadKeyword(r) ==
    /\ NextCall(r)
    /\ req' = [req EXCEPT ![r] = Answered(EmptyKeyword, RespError(400))]
    /\ UNCHANGED <<mongo, pool, replica, store, queue, jobs, poll, hist>>

\* the entry as an HGetAll finds it
SeenStatus(h) == IF h.exists THEN h.status ELSE "absent"

\* a message for the keyword is queued or being processed
InFlight(keyword) ==
    \/ \E i \in 1..Len(queue) : queue[i].keyword = keyword
    \/ \E j \in jobs : j.keyword = keyword

\* history: the call is made after the lock has run out, while the entry is
\* left loading by a holder that enqueued nothing and no message is in flight
Healing(keyword) ==
    /\ orphan[GetFuzzyCacheKey(keyword)]
    /\ ~lock[GetFuzzyLockKey(keyword)].exists
    /\ ~InFlight(keyword)
    /\ \A q \in ReqIds : req[q].keyword = keyword => req[q].pc \in {"done", "crashed"}

\* steps 1-2: the keys and the cache read; a payload that is not nil is
\* returned at once
SubmitGetData(r, keyword) ==
    LET cacheKey == GetFuzzyCacheKey(keyword)
        got == GetDataByKey(cache[cacheKey])
    IN  /\ NextCall(r)
        /\ keyword \in KeywordsOf(r)
        /\ req' = [req EXCEPT ![r] =
                     IF ~got.data.isNil
                     THEN Answered(keyword, RespData(got.data))
                     ELSE [IdleReq EXCEPT !.pc = "setnx", !.keyword = keyword,
                                          !.status = got.status,
                                          !.seen = SeenStatus(cache[cacheKey]),
                                          !.fresh = TRUE,
                                          !.healing = Healing(keyword)]]
        /\ UNCHANGED <<mongo, pool, replica, store, queue, jobs, poll, hist>>

\* steps 3-4: the request id, the lock value, writeClient taken from
\* GetMasterClient, and SetNX(lockKey, lockVal, 5s) on it
SubmitSetNX(r) ==
    LET lockKey == GetFuzzyLockKey(req[r].keyword)
        lockVal == GenerateReqID(MaxReqs + r)
        lockSuccess == SetNXOk(lock[lockKey])
        after == SetNXStore(lock[lockKey], lockVal, LockExpire)
    IN  /\ req[r].pc = "setnx"
        /\ lock' = [lock EXCEPT ![lockKey] = after]
        /\ req' = [req EXCEPT ![r].lockSuccess = lockSuccess,
                              ![r].writeClient = GetMasterClient,
                              ![r].lockSeen = after.val,
                              ![r].pc = IF ShouldPublish(lockSuccess, req[r].status)
                                        THEN "hset" ELSE "hsetReq"]
        /\ UNCHANGED <<mongo, pool, replica, cache, reqStatus, queue, jobs, poll, hist>>

\* step 5: HSet(cacheKey, status loading, keyword, create_time)
SubmitHSetLoading(r) ==
    LET cacheKey == GetFuzzyCacheKey(req[r].keyword)
    IN  /\ req[r].pc = "hset"
        /\ cache' = [cache EXCEPT ![cacheKey] = HSetLoading(@, req[r].keyword)]
        /\ loadingPubs' = [loadingPubs EXCEPT ![cacheKey] =
                             IF SeenStatus(cache[cacheKey]) = "loading" THEN @ ELSE 0]
        /\ req' = [req EXCEPT ![r].pc = "expire"]
        /\ UNCHANGED <<mongo, pool, replica, lock, reqStatus, queue, jobs, poll,
                       winPubs, epochHandles, epochPubs, orphan>>

\* step 5: the HSet returns an error (store unreachable, request context
\* cancelled): the handler does not look at it and goes on
SubmitHSetLoadingFail(r) ==
    /\ req[r].pc = "hset"
    /\ req' = [req EXCEPT ![r].pc = "expire"]
    /\ UNCHANGED <<mongo, pool, replica, store, queue, jobs, poll, hist>>

\* step 5: Expire(cacheKey, FuzzyCacheExpire)
SubmitExpire(r) ==
    LET cacheKey == GetFuzzyCacheKey(req[r].keyword)
    IN  /\ req[r].pc = "expire"
        /\ cache' = [cache EXCEPT ![cacheKey] = Expire(@, FuzzyCacheExpire)]
        /\ req' = [req EXCEPT ![r].pc = "publish"]
        /\ UNCHANGED <<mongo, pool, replica, lock, reqStatus, queue, jobs, poll, hist>>

\* step 5: the publish succeeds.  The priority is the caller's, read from the
\* request context where it is used.
SubmitPublish(r, userType) ==
    LET cacheKey == GetFuzzyCacheKey(req[r].keyword)
        lockKey == GetFuzzyLockKey(req[r].keyword)
    IN  /\ req[r].pc = "publish"
        /\ queue' = PublishPriorityMQ(queue,
                        WorkItem(r, req[r].keyword, PriorityOf(userType)))
        /\ req' = [req EXCEPT ![r].pc = "hsetReq", ![r].published = TRUE]
        /\ winPubs' = [winPubs EXCEPT ![lockKey] =
                         IF lock[lockKey].exists /\ lock[lockKey].val = req[r].lockSeen
                         THEN @ + 1 ELSE @]
        /\ loadingPubs' = [loadingPubs EXCEPT ![cacheKey] =
                             IF SeenStatus(cache[cacheKey]) = "loading" THEN @ + 1 ELSE @]
        /\ epochPubs' = [epochPubs EXCEPT ![cacheKey] = IF req[r].fresh THEN @ + 1 ELSE @]
        /\ orphan' = [orphan EXCEPT ![cacheKey] = FALSE]
        /\ UNCHANGED <<mongo, pool, replica, store, jobs, poll, epochHandles>>

\* a failed publish that gives the lock back before it returns
SubmitPublishFailUnlock(r) ==
    LET cacheKey == GetFuzzyCacheKey(req[r].keyword)
        lockKey == GetFuzzyLockKey(req[r].keyword)
    IN  /\ req[r].pc = "publish"
        /\ req' = [req EXCEPT ![r] = Answered(req[r].keyword, RespError(500))]
        /\ lock' = [lock EXCEPT ![lockKey] = NoString]
        /\ orphan' = [orphan EXCEPT ![cacheKey] = TRUE]
        /\ UNCHANGED <<mongo, pool, replica, cache, reqStatus, queue, jobs, poll,
                       winPubs, loadingPubs, epochHandles, epochPubs>>

\* step 5: the publish returns an error: 500 and return
SubmitPublishFail(r) ==
    LET cacheKey == GetFuzzyCacheKey(req[r].keyword)
    IN  /\ req[r].pc = "publish"
        /\ req' = [req EXCEPT ![r] = Answered(req[r].keyword, RespError(500))]
        /\ orphan' = [orphan EXCEPT ![cacheKey] = TRUE]
        /\ UNCHANGED <<mongo, pool, replica, store, queue, jobs, poll,
                       winPubs, loadingPubs, epochHandles, epochPubs>>

\* step 6: HSet(reqStatusKey, status pending, keyword, cache_key)
SubmitHSetReq(r) ==
    LET reqStatusKey == ReqStatusKey(GenerateReqID(r))
    IN  /\ req[r].pc = "hsetReq"
        /\ reqStatus' = [reqStatus EXCEPT ![reqStatusKey] =
                           HSetPending(@, req[r].keyword, GetFuzzyCacheKey(req[r].keyword))]
        /\ req' = [req EXCEPT ![r].pc = "expireReq"]
        /\ UNCHANGED <<mongo, pool, replica, lock, cache, queue, jobs, poll, hist>>

\* steps 6-7: Expire(reqStatusKey, 5 min) and the answer with the req_id
SubmitExpireReq(r) ==
    LET reqStatusKey == ReqStatusKey(GenerateReqID(r))
        cacheKey == GetFuzzyCacheKey(req[r].keyword)
    IN  /\ req[r].pc = "expireReq"
        /\ reqStatus' = [reqStatus EXCEPT ![reqStatusKey] = Expire(@, ReqStatusExpire)]
        /\ req' = [req EXCEPT ![r] = Answered(req[r].keyword, RespPolling(GenerateReqID(r)))]
        /\ epochHandles' = [epochHandles EXCEPT ![cacheKey] =
                              IF req[r].fresh THEN @ + 1 ELSE @]
        /\ UNCHANGED <<mongo, pool, replica, lock, cache, queue, jobs, poll,
                       winPubs, loadingPubs, epochPubs, orphan>>

\* the process serving the call dies between taking the lock and the publish
SubmitCrash(r) ==
    LET cacheKey == GetFuzzyCacheKey(req[r].keyword)
    IN  /\ req[r].pc \in {"hset", "expire", "publish"}
        /\ req' = [req EXCEPT ![r] = [IdleReq EXCEPT !.pc = "crashed",
                                                     !.keyword = req[r].keyword]]
        /\ orphan' = [orphan EXCEPT ![cacheKey] = @ \/ req[r].pc # "hset"]
        /\ UNCHANGED <<mongo, pool, replica, store, queue, jobs, poll,
                       winPubs, loadingPubs, epochHandles, epochPubs>>

\* history: the entry leaves its epoch; the calls in progress for it are no
\* longer calls made before the result
Stale(keys) ==
    [r \in ReqIds |->
        IF req[r].pc \notin {"idle", "done", "crashed"}
           /\ GetFuzzyCacheKey(req[r].keyword) \in keys
        THEN [req[r] EXCEPT !.fresh = FALSE] ELSE req[r]]

(***************************************************************************)
(* startFuzzyQueryConsumer.                                                *)
(***************************************************************************)
\* a consumer that starts a worker without waiting for a slot
DeliverUngated(i) ==
    /\ i \in 1..Len(queue)
    /\ sem' = sem + 1
    /\ jobs' = jobs \cup {[id |-> queue[i].id, keyword |-> queue[i].keyword,
                           priority |-> queue[i].priority,
                           redisClient |-> GetMasterClient,
                           pc |-> IF queue[i].keyword = NotJSON THEN "parseErr"
                                                                ELSE "search"]}
    /\ queue' = RemoveAt(queue, i)
    /\ UNCHANGED <<mongo, panics, replica, store, req, poll, hist>>

\* the consumer receives a message, takes a slot of sem and starts a worker,
\* which parses the keyword out of the body; redisClient is the connection
\* the consumer took from GetMasterClient when it started
Deliver(i) ==
    /\ i \in 1..Len(queue)
    /\ sem < Concurrency
    /\ sem' = sem + 1
    /\ jobs' = jobs \cup {[id |-> queue[i].id, keyword |-> queue[i].keyword,
                           priority |-> queue[i].priority,
                           redisClient |-> GetMasterClient,
                           pc |-> IF queue[i].keyword = NotJSON THEN "parseErr"
                                                                ELSE "search"]}
    /\ queue' = RemoveAt(queue, i)
    /\ UNCHANGED <<mongo, panics, replica, store, req, poll, hist>>

\* the search returns (its error is logged only), the result list is
\* serialized and HSet(cacheKey, status ready, data, update_time) is sent
WorkerHSet(j, outcome) ==
    LET cacheKey == GetFuzzyCacheKey(j.keyword)
        resultJSON == jsonMarshal(outcome.list)
    IN  /\ j \in jobs
        /\ j.pc = "search"
        /\ cache' = [cache EXCEPT ![cacheKey] = HSetReady(@, resultJSON)]
        /\ jobs' = (jobs \ {j}) \cup {[j EXCEPT !.pc = "expire"]}
        /\ req' = Stale({cacheKey})
        /\ loadingPubs' = [loadingPubs EXCEPT ![cacheKey] = 0]
        /\ epochHandles' = [epochHandles EXCEPT ![cacheKey] = 0]
        /\ epochPubs' = [epochPubs EXCEPT ![cacheKey] = 0]
        /\ orphan' = [orphan EXCEPT ![cacheKey] = FALSE]
        /\ UNCHANGED <<mongo, pool, replica, lock, reqStatus, queue, poll, winPubs>>

\* Expire(cacheKey, FuzzyCacheExpire), then msg.Ack(false); the deferred
\* function frees the slot
WorkerExpireAck(j) ==
    LET cacheKey == GetFuzzyCacheKey(j.keyword)
    IN  /\ j \in jobs
        /\ j.pc = "expire"
        /\ cache' = [cache EXCEPT ![cacheKey] = Expire(@, FuzzyCacheExpire)]
        /\ jobs' = jobs \ {j}
        /\ sem' = sem - 1
        /\ UNCHANGED <<mongo, panics, replica, lock, reqStatus, queue, req, poll, hist>>

\* msg.Nack(false, true): the broker puts the message back at the head
Requeue(q, msg) == <<msg>> \o q

\* a worker that nacks an unreadable message with requeue
WorkerParseErrorRequeue(j) ==
    /\ j \in jobs
    /\ j.pc = "parseErr"
    /\ jobs' = jobs \ {j}
    /\ sem' = sem - 1
    /\ queue' = Requeue(queue, WorkItem(j.id, j.keyword, j.priority))
    /\ UNCHANGED <<mongo, panics, replica, store, req, poll, hist>>

\* json.Unmarshal(msg.Body, &msgData) fails: msg.Ack(false) and return; the
\* deferred function frees the slot
WorkerParseError(j) ==
    /\ j \in jobs
    /\ j.pc = "parseErr"
    /\ jobs' = jobs \ {j}
    /\ sem' = sem - 1
    /\ UNCHANGED <<mongo, panics, replica, store, queue, req, poll, hist>>

\* the HSet of the result returns an error (store unreachable, ctx
\* cancelled): the worker does not look at it and goes on
WorkerHSetFail(j) ==
    /\ j \in jobs
    /\ j.pc = "search"
    /\ jobs' = (jobs \ {j}) \cup {[j EXCEPT !.pc = "expire"]}
    /\ UNCHANGED <<mongo, pool, replica, store, queue, req, poll, hist>>

\* a recovery that nacks without requeue: the broker drops the message
WorkerPanicNoRequeue(j) ==
    /\ j \in jobs
    /\ j.pc \in {"search", "expire"}
    /\ panics < MaxPanics
    /\ panics' = panics + 1
    /\ jobs' = jobs \ {j}
    /\ sem' = sem - 1
    /\ UNCHANGED <<mongo, replica, store, queue, req, poll, hist>>

\* the worker panics in the search, the marshalling or a store call: the
\* deferred function frees the slot, recovers and nacks with requeue
WorkerPanic(j) ==
    /\ j \in jobs
    /\ j.pc \in {"search", "expire"}
    /\ panics < MaxPanics
    /\ panics' = panics + 1
    /\ jobs' = jobs \ {j}
    /\ sem' = sem - 1
    /\ queue' = Requeue(queue, WorkItem(j.id, j.keyword, j.priority))
    /\ UNCHANGED <<mongo, replica, store, req, poll, hist>>

(***************************************************************************)
(* GetFuzzyQueryResult.                                                    *)
(***************************************************************************)
\* an answer that takes a loading entry for a missing one
PollAnswerLoadingAsMissing(reqID, cacheData) ==
    IF ~cacheData.exists \/ cacheData.status = "loading" THEN RespProgress(reqID, 50)
    ELSE CASE cacheData.status = "failed" -> RespError(500)
           [] cacheData.status = "ready" -> RespData(jsonUnmarshal(cacheData.data))
           [] OTHER -> RespNone

\* the answer for the cache hash read in step 2
PollAnswer(reqID, cacheData) ==
    IF ~cacheData.exists THEN RespProgress(reqID, 50)
    ELSE CASE cacheData.status = "loading" -> RespProgress(reqID, 70)
           [] cacheData.status = "failed" -> RespError(500)
           [] cacheData.status = "ready" -> RespData(jsonUnmarshal(cacheData.data))
           [] OTHER -> RespNone

\* req_id == "": 400
PollBadRequest ==
    /\ poll.pc = "idle"
    /\ poll' = [IdlePoll EXCEPT !.resp = RespError(400)]
    /\ UNCHANGED <<mongo, pool, replica, store, queue, jobs, req, hist>>

\* step 1: HGetAll(reqStatusKey); 404 when the hash is empty
PollReqStatus(reqID) ==
    LET statusMap == reqStatus[ReqStatusKey(reqID)]
    IN  /\ poll.pc = "idle"
        /\ poll' = IF ~statusMap.exists
                   THEN [IdlePoll EXCEPT !.reqID = reqID, !.resp = RespError(404)]
                   ELSE [IdlePoll EXCEPT !.pc = "cache", !.reqID = reqID,
                                         !.seenHandle = TRUE,
                                         !.cacheKey = statusMap.cache_key]
        /\ UNCHANGED <<mongo, pool, replica, store, queue, jobs, req, hist>>

\* step 2: HGetAll(cacheKey) and the answer
PollCache ==
    LET cacheData == cache[poll.cacheKey]
    IN  /\ poll.pc = "cache"
        /\ poll' = [poll EXCEPT !.pc = "idle",
                                !.seenStatus = SeenStatus(cacheData),
                                !.seenData = cacheData.data,
                                !.resp = PollAnswer(poll.reqID, cacheData)]
        /\ UNCHANGED <<mongo, pool, replica, store, queue, jobs, req, hist>>

(***************************************************************************)
(* Time.                                                                   *)
(***************************************************************************)
\* the remaining lifetimes of the keys that have one
Lifetimes ==
    {lock[k].ttl : k \in {x \in LockKeys : lock[x].exists}}
    \cup {cache[k].ttl : k \in {x \in CacheKeys : cache[x].exists /\ cache[x].ttl # NoExpiry}}
    \cup {reqStatus[k].ttl : k \in {x \in ReqStatusKeys :
                                      reqStatus[x].exists /\ reqStatus[x].ttl # NoExpiry}}

\* the keys of S that run out within d seconds
Expiring(S, kv, d) == {k \in S : kv[k].exists /\ kv[k].ttl # NoExpiry /\ kv[k].ttl <= d}

\* d seconds pass: every key whose lifetime has run out is gone
Pass(d) ==
    LET gone == Expiring(CacheKeys, cache, d)
        unlocked == Expiring(LockKeys, lock, d)
    IN  /\ lock' = [k \in LockKeys |-> Aged(lock[k], NoString, d)]
        /\ cache' = [k \in CacheKeys |-> Aged(cache[k], NoHash, d)]
        /\ reqStatus' = [k \in ReqStatusKeys |-> Aged(reqStatus[k], NoHash, d)]
        /\ req' = Stale(gone)
        /\ winPubs' = [k \in LockKeys |-> IF k \in unlocked THEN 0 ELSE winPubs[k]]
        /\ loadingPubs' = [k \in CacheKeys |-> IF k \in gone THEN 0 ELSE loadingPubs[k]]
        /\ epochHandles' = [k \in CacheKeys |-> IF k \in gone THEN 0 ELSE epochHandles[k]]
        /\ epochPubs' = [k \in CacheKeys |-> IF k \in gone THEN 0 ELSE epochPubs[k]]
        /\ orphan' = [k \in CacheKeys |-> IF k \in gone THEN FALSE ELSE orphan[k]]
        /\ UNCHANGED <<mongo, pool, replica, queue, jobs, poll>>

\* time passes until the lifetime of some key has run out
Tick == \E d \in Lifetimes : Pass(d)

(***************************************************************************)
(* The program.                                                            *)
(***************************************************************************)
Submit ==
    \E r \in ReqIds :
        \/ SubmitBadKeyword(r)
        \/ \E keyword \in Keywords : SubmitGetData(r, keyword)
        \/ SubmitSetNX(r)
        \/ SubmitHSetLoading(r)
        \/ SubmitExpire(r)
        \/ \E userType \in UserTypes : SubmitPublish(r, userType)
        \/ SubmitPublishFail(r)
        \/ SubmitHSetReq(r)
        \/ SubmitExpireReq(r)
        \/ SubmitCrash(r)

Consume ==
    \/ \E i \in 1..Len(queue) : Deliver(i)
    \/ \E j \in jobs :
        \/ \E outcome \in SearchOutcomes : WorkerHSet(j, outcome)
        \/ WorkerExpireAck(j)

Poll ==
    \/ PollBadRequest
    \/ \E reqID \in PollIds : PollReqStatus(reqID)
    \/ PollCache

\* the dispatcher: submissions, the consumer and time
Next == Submit \/ Consume \/ Tick

Spec == Init /\ [][Next]_vars

\* the dispatcher with a store that can refuse the submitter's HSet
StoreFault == \E r \in ReqIds : SubmitHSetLoadingFail(r)

SpecStoreFault == Init /\ [][Next \/ StoreFault]_vars

(***************************************************************************)
(* GetFuzzyQueryResult on its own: the polls of a store holding any        *)
(* request handles and any cache entries of the data model (status         *)
(* loading, ready or failed; the data field missing, null or a list).      *)
(***************************************************************************)
Payloads == {"", "null", "[]", "[doc]"}

HandlesOf(n) ==
    {NoHash} \cup {[NoHash EXCEPT !.exists = TRUE, !.ttl = ReqStatusExpire,
                                  !.status = "pending", !.keyword = k,
                                  !.cache_key = GetFuzzyCacheKey(k)] : k \in Keywords}

EntriesOf(k) ==
    {NoHash} \cup {[NoHash EXCEPT !.exists = TRUE, !.ttl = FuzzyCacheExpire,
                                  !.status = st, !.data = d, !.keyword = k] :
                     st \in {"loading", "ready", "failed"}, d \in Payloads}

InitPoll ==
    /\ lock = [k \in LockKeys |-> NoString]
    /\ cache \in {c \in [CacheKeys -> UNION {EntriesOf(k) : k \in Keywords}] :
                    \A k \in Keywords : c[GetFuzzyCacheKey(k)] \in EntriesOf(k)}
    /\ reqStatus \in {h \in [ReqStatusKeys -> UNION {HandlesOf(n) : n \in 0..MaxReqs}] :
                        ~h[ReqStatusKey(GenerateReqID(0))].exists}
    /\ queue = <<>>
    /\ jobs = {}
    /\ req = [r \in ReqIds |-> IdleReq]
    /\ poll = IdlePoll
    /\ winPubs = [k \in LockKeys |-> 0]
    /\ loadingPubs = [k \in CacheKeys |-> 0]
    /\ epochHandles = [k \in CacheKeys |-> 0]
    /\ epochPubs = [k \in CacheKeys |-> 0]
    /\ orphan = [k \in CacheKeys |-> FALSE]
    /\ InitPool
    /\ InitMongo
    /\ InitNoReplica

SpecPoll == InitPoll /\ [][Poll]_vars

(***************************************************************************)
(* RedisManger: the replica set, its refresh loop and the read selection.  *)
(***************************************************************************)
\* the elements of a sequence
Range(q) == {q[i] : i \in 1..Len(q)}

\* the switch on addr: container addresses to the host's ports
TranslateAddr(addr) ==
    CASE addr = "172.28.0.10:6379" -> "localhost:6379"
      [] addr = "172.28.0.11:6379" -> "localhost:6380"
      [] addr = "172.28.0.12:6379" -> "localhost:6381"
      [] OTHER -> addr

\* safeString: the text of a string, "" for anything else (nil here)
safeString(v) == IF v.isString THEN v.s ELSE ""

Str(text) == [isString |-> TRUE, s |-> text]
Nil == [isString |-> FALSE, s |-> ""]

\* the entries of a SENTINEL SLAVES reply: two replicas, and one without ip
Slave1 == [ip |-> Str("172.28.0.11"), port |-> Str("6379")]
Slave2 == [ip |-> Str("172.28.0.12"), port |-> Str("6379")]
SlaveNoIp == [ip |-> Nil, port |-> Str("6379")]

\* what the sentinel answers: a command error, a value that is not a list,
\* or a list of entries
SentinelReplies ==
    {[kind |-> "error", slaves |-> <<>>], [kind |-> "invalid", slaves |-> <<>>]}
    \cup {[kind |-> "slaves", slaves |-> l] :
             l \in {<<>>, <<SlaveNoIp>>, <<Slave1>>, <<Slave1, Slave2>>,
                    <<SlaveNoIp, Slave2>>}}

\* net.JoinHostPort of the entries that have both ip and port, in order
RECURSIVE AddrsOf(_)
AddrsOf(slaves) ==
    IF slaves = <<>> THEN <<>>
    ELSE LET ip == safeString(Head(slaves).ip)
             port == safeString(Head(slaves).port)
         IN  (IF ip # "" /\ port # "" THEN <<ip \o ":" \o port>> ELSE <<>>)
             \o AddrsOf(Tail(slaves))

\* getSlaveAddrs: (addrs, err)
getSlaveAddrs(reply) ==
    IF reply.kind # "slaves" THEN [addrs |-> <<>>, err |-> TRUE]
    ELSE IF AddrsOf(reply.slaves) = <<>> THEN [addrs |-> <<>>, err |-> TRUE]
    ELSE [addrs |-> AddrsOf(reply.slaves), err |-> FALSE]

\* the clients the probe loop keeps: one per address, in order, of those
\* whose Ping succeeded
RECURSIVE Probed(_, _, _)
Probed(gen, addrs, up) ==
    IF addrs = <<>> THEN <<>>
    ELSE (IF TranslateAddr(Head(addrs)) \in up
          THEN <<Conn(gen, TranslateAddr(Head(addrs)))>> ELSE <<>>)
         \o Probed(gen, Tail(addrs), up)

\* the clients the probe loop closes: those whose Ping failed
ProbeFailed(gen, addrs, up) ==
    {Conn(gen, TranslateAddr(a)) : a \in {x \in Range(addrs) : TranslateAddr(x) \notin up}}

\* the replica addresses a Ping can reach
ReplicaHosts == {"localhost:6380", "localhost:6381"}

\* NewRedisManager: it fails when the Ping of the primary fails and when
\* getSlaveAddrs returns an error; otherwise it keeps the replicas whose Ping
\* succeeds, closes the others and starts the refresh loop.  The refresher
\* at "new" is the manager not yet built, at "failed" the call that returned
\* (nil, err)
NewRedisManager(masterUp, reply, up) ==
    LET got == getSlaveAddrs(reply)
    IN  /\ refresher.pc = "new"
        /\ IF ~masterUp \/ got.err
           THEN /\ refresher' = [IdleRefresher EXCEPT !.pc = "failed", !.err = TRUE]
                /\ UNCHANGED <<mongo, slaveClients, closedClients>>
           ELSE /\ refresher' = IdleRefresher
                /\ slaveClients' = Probed(0, got.addrs, up)
                /\ closedClients' = ProbeFailed(0, got.addrs, up)
        /\ UNCHANGED <<mongo, dispatcher, mu, reader>>

\* the ticker fires: r.mu.Lock()
RefreshLock ==
    /\ refresher.pc = "wait"
    /\ refresher.gen < MaxRefreshes
    /\ ~mu.writer /\ mu.readers = 0
    /\ mu' = [mu EXCEPT !.writer = TRUE]
    /\ refresher' = [IdleRefresher EXCEPT !.pc = "addrs", !.gen = refresher.gen + 1]
    /\ UNCHANGED <<mongo, dispatcher, slaveClients, closedClients, reader>>

\* slaveAddrs, err := getSlaveAddrs(r.sentinelOpts)
RefreshGetAddrs(reply) ==
    /\ refresher.pc = "addrs"
    /\ refresher' = [refresher EXCEPT !.pc = "probe",
                                      !.addrs = getSlaveAddrs(reply).addrs,
                                      !.err = getSlaveAddrs(reply).err]
    /\ UNCHANGED <<mongo, dispatcher, slaveClients, closedClients, mu, reader>>

\* the loop over slaveAddrs: a client per address, kept when its Ping
\* succeeds and closed when it fails
RefreshProbe(up) ==
    /\ refresher.pc = "probe"
    /\ refresher' = [refresher EXCEPT !.pc = "check",
                        !.slaveClients = Probed(refresher.gen, refresher.addrs, up)]
    /\ closedClients' = closedClients \cup ProbeFailed(refresher.gen, refresher.addrs, up)
    /\ UNCHANGED <<mongo, dispatcher, slaveClients, mu, reader>>

\* an iteration that goes on to the swap whatever the query returned
RefreshCheckErrIgnored ==
    /\ refresher.pc = "check"
    /\ refresher' = [refresher EXCEPT !.pc = "close"]
    /\ UNCHANGED <<mongo, dispatcher, slaveClients, closedClients, mu, reader>>

\* if err != nil: Unlock and continue
RefreshCheckErr ==
    /\ refresher.pc = "check"
    /\ IF refresher.err
       THEN /\ refresher' = [refresher EXCEPT !.pc = "wait"]
            /\ mu' = [mu EXCEPT !.writer = FALSE]
       ELSE /\ refresher' = [refresher EXCEPT !.pc = "close"]
            /\ mu' = mu
    /\ UNCHANGED <<mongo, dispatcher, slaveClients, closedClients, reader>>

\* the loop that closes every client of r.slaveClients
RefreshClose ==
    /\ refresher.pc = "close"
    /\ closedClients' = closedClients \cup Range(slaveClients)
    /\ refresher' = [refresher EXCEPT !.pc = "swap"]
    /\ UNCHANGED <<mongo, dispatcher, slaveClients, mu, reader>>

\* r.slaveClients = slaveClients
RefreshSwap ==
    /\ refresher.pc = "swap"
    /\ slaveClients' = refresher.slaveClients
    /\ refresher' = [refresher EXCEPT !.pc = "unlock"]
    /\ UNCHANGED <<mongo, dispatcher, closedClients, mu, reader>>

\* r.mu.Unlock() at the end of the iteration
RefreshUnlock ==
    /\ refresher.pc = "unlock"
    /\ mu' = [mu EXCEPT !.writer = FALSE]
    /\ refresher' = [refresher EXCEPT !.pc = "wait"]
    /\ UNCHANGED <<mongo, dispatcher, slaveClients, closedClients, reader>>

\* a read lock that does not wait for the writer
CanRLockAlways(m) == TRUE

\* RLock waits while a writer holds the mutex
CanRLock(m) == ~m.writer

\* a selection that has no fallback: no replica is an error
selectReadClientNoFallback(clients, idx) ==
    IF Len(clients) > 0
    THEN [client |-> clients[idx], err |-> FALSE]
    ELSE [client |-> NoClient, err |-> TRUE]

\* what selectReadClient returns for the list it reads and the index drawn
selectReadClient(clients, idx) ==
    IF Len(clients) > 0
    THEN [client |-> clients[idx], err |-> FALSE]
    ELSE [client |-> masterClient, err |-> FALSE]

\* GetSlaveClient: the selection, its error wrapped
GetSlaveClient(sel) ==
    IF sel.err THEN [client |-> NoClient, err |-> TRUE] ELSE sel

\* selectReadClient is entered: r.mu.RLock()
SelectRLock(p) ==
    /\ reader[p].pc = "idle"
    /\ CanRLock(mu)
    /\ mu' = [mu EXCEPT !.readers = @ + 1]
    /\ reader' = [reader EXCEPT ![p] = [IdleReader EXCEPT !.pc = "locked"]]
    /\ UNCHANGED <<mongo, dispatcher, slaveClients, closedClients, refresher>>

\* len(r.slaveClients) == 0: the primary is returned; RUnlock is deferred
SelectMaster(p) ==
    /\ reader[p].pc = "locked"
    /\ Len(slaveClients) = 0
    /\ mu' = [mu EXCEPT !.readers = @ - 1]
    /\ reader' = [reader EXCEPT ![p] =
                     [pc |-> "idle", n |-> 0, outcome |-> "returned",
                      client |-> GetSlaveClient(selectReadClient(slaveClients, 0)).client,
                      err |-> GetSlaveClient(selectReadClient(slaveClients, 0)).err]]
    /\ UNCHANGED <<mongo, dispatcher, slaveClients, closedClients, refresher>>

\* len(r.slaveClients) > 0: the call enters r.rand.Intn
SelectIntn(p) ==
    /\ reader[p].pc = "locked"
    /\ Len(slaveClients) > 0
    /\ reader' = [reader EXCEPT ![p].pc = "intn", ![p].n = Len(slaveClients)]
    /\ UNCHANGED <<mongo, dispatcher, slaveClients, closedClients, mu, refresher>>

\* Intn(n) returns an idx below n and r.slaveClients[idx] is returned; an
\* index beyond the list as it is now panics.  RUnlock is deferred
SelectReturn(p, idx) ==
    /\ reader[p].pc = "intn"
    /\ idx <= reader[p].n
    /\ mu' = [mu EXCEPT !.readers = @ - 1]
    /\ reader' = [reader EXCEPT ![p] =
                     IF idx <= Len(slaveClients)
                     THEN [pc |-> "idle", n |-> 0, outcome |-> "returned",
                           client |-> GetSlaveClient(selectReadClient(slaveClients, idx)).client,
                           err |-> GetSlaveClient(selectReadClient(slaveClients, idx)).err]
                     ELSE [IdleReader EXCEPT !.outcome = "panic"]]
    /\ UNCHANGED <<mongo, dispatcher, slaveClients, closedClients, refresher>>

\* two calls are inside Intn of the one rand.Rand, which is not safe for
\* concurrent use: besides any index, the racing call can panic inside it
SelectRacePanic(p) ==
    /\ reader[p].pc = "intn"
    /\ \E q \in Readers \ {p} : reader[q].pc = "intn"
    /\ mu' = [mu EXCEPT !.readers = @ - 1]
    /\ reader' = [reader EXCEPT ![p] = [IdleReader EXCEPT !.outcome = "panic"]]
    /\ UNCHANGED <<mongo, dispatcher, slaveClients, closedClients, refresher>>

\* the caller's read on the client it was given (HGetAll in GetDataByKey and
\* in the poll, ZRevRange and Get in GetLatestDataBySource), after
\* selectReadClient has returned and released the read lock: a command on a
\* client that has been closed fails
ReadOnClient(p) ==
    /\ reader[p].pc = "idle"
    /\ reader[p].outcome = "returned"
    /\ reader' = [reader EXCEPT ![p].outcome =
                     IF reader[p].client \in closedClients THEN "closed" ELSE "read"]
    /\ UNCHANGED <<mongo, dispatcher, slaveClients, closedClients, mu, refresher>>

\* the largest replica list of a run
MaxReplicas == 2

Refresh ==
    \/ RefreshLock
    \/ \E reply \in SentinelReplies : RefreshGetAddrs(reply)
    \/ \E up \in SUBSET ReplicaHosts : RefreshProbe(up)
    \/ RefreshCheckErr
    \/ RefreshClose
    \/ RefreshSwap
    \/ RefreshUnlock

Read ==
    \E p \in Readers :
        \/ SelectRLock(p)
        \/ SelectMaster(p)
        \/ SelectIntn(p)
        \/ \E idx \in 1..MaxReplicas : SelectReturn(p, idx)
        \/ SelectRacePanic(p)
        \/ ReadOnClient(p)

\* the key/value manager on its own
ReplicaNext == Refresh \/ Read

\* the replica lists NewRedisManager can leave: the replicas it could ping
InitialSets ==
    {<<>>, <<Conn(0, "localhost:6380")>>,
     <<Conn(0, "localhost:6380"), Conn(0, "localhost:6381")>>}

InitReplica ==
    /\ lock = [k \in LockKeys |-> NoString]
    /\ cache = [k \in CacheKeys |-> NoHash]
    /\ reqStatus = [k \in ReqStatusKeys |-> NoHash]
    /\ queue = <<>>
    /\ jobs = {}
    /\ req = [r \in ReqIds |-> IdleReq]
    /\ poll = IdlePoll
    /\ winPubs = [k \in LockKeys |-> 0]
    /\ loadingPubs = [k \in CacheKeys |-> 0]
    /\ epochHandles = [k \in CacheKeys |-> 0]
    /\ epochPubs = [k \in CacheKeys |-> 0]
    /\ orphan = [k \in CacheKeys |-> FALSE]
    /\ InitPool
    /\ InitMongo
    /\ slaveClients \in InitialSets
    /\ closedClients = {}
    /\ mu = MuFree
    /\ refresher = IdleRefresher
    /\ reader = [p \in Readers |-> IdleReader]

SpecReplica == InitReplica /\ [][ReplicaNext]_vars

\* the manager from its construction on: NewRedisManager, then the refresh
\* loop it started
InitNew ==
    /\ lock = [k \in LockKeys |-> NoString]
    /\ cache = [k \in CacheKeys |-> NoHash]
    /\ reqStatus = [k \in ReqStatusKeys |-> NoHash]
    /\ queue = <<>>
    /\ jobs = {}
    /\ req = [r \in ReqIds |-> IdleReq]
    /\ poll = IdlePoll
    /\ winPubs = [k \in LockKeys |-> 0]
    /\ loadingPubs = [k \in CacheKeys |-> 0]
    /\ epochHandles = [k \in CacheKeys |-> 0]
    /\ epochPubs = [k \in CacheKeys |-> 0]
    /\ orphan = [k \in CacheKeys |-> FALSE]
    /\ InitPool
    /\ InitMongo
    /\ slaveClients = <<>>
    /\ closedClients = {}
    /\ mu = MuFree
    /\ refresher = [IdleRefresher EXCEPT !.pc = "new"]
    /\ reader = [p \in Readers |-> IdleReader]

New ==
    \E masterUp \in BOOLEAN, reply \in SentinelReplies, up \in SUBSET ReplicaHosts :
        NewRedisManager(masterUp, reply, up)

NewNext == New \/ Refresh

SpecNew == InitNew /\ [][NewNext]_vars

(***************************************************************************)
(* startFuzzyQueryConsumer on its own: the consumer starts on a queue      *)
(* that already holds more messages than it has slots, all of one          *)
(* priority, which the broker therefore delivers in order; the store and   *)
(* the workers can fail.                                                   *)
(***************************************************************************)
\* the body of the i-th waiting message; the one at position bad is not JSON
BodyOf(i, bad) == IF i = bad THEN NotJSON ELSE FirstKeyword

\* position of the malformed message: the last one, behind enough messages
\* to fill every slot
BadPositions == {MaxMsgs}

InitWorker ==
    /\ lock = [k \in LockKeys |-> NoString]
    /\ cache = [k \in CacheKeys |->
                  IF k = GetFuzzyCacheKey(FirstKeyword)
                  THEN Expire(HSetLoading(NoHash, FirstKeyword), FuzzyCacheExpire)
                  ELSE NoHash]
    /\ reqStatus = [k \in ReqStatusKeys |-> NoHash]
    /\ \E bad \in BadPositions :
          queue = [i \in 1..MaxMsgs |-> WorkItem(i, BodyOf(i, bad), 0)]
    /\ jobs = {}
    /\ req = [r \in ReqIds |-> IdleReq]
    /\ poll = IdlePoll
    /\ winPubs = [k \in LockKeys |-> 0]
    /\ loadingPubs = [k \in CacheKeys |-> 0]
    /\ epochHandles = [k \in CacheKeys |-> 0]
    /\ epochPubs = [k \in CacheKeys |-> 0]
    /\ orphan = [k \in CacheKeys |-> FALSE]
    /\ InitPool
    /\ InitMongo
    /\ InitNoReplica

ConsumeInOrder ==
    \/ Deliver(1)
    \/ \E j \in jobs :
        \/ \E outcome \in SearchOutcomes : WorkerHSet(j, outcome)
        \/ WorkerExpireAck(j)
        \/ WorkerParseError(j)
        \/ WorkerHSetFail(j)
        \/ WorkerPanic(j)

SpecWorker == InitWorker /\ [][ConsumeInOrder]_vars

(***************************************************************************)
(* The dispatcher over a cache that already holds a ready entry for the    *)
(* first keyword, as a worker left it: with a list of documents, or with   *)
(* the empty text of a result that json.Marshal could not serialize.       *)
(***************************************************************************)
ReadyPayloads == {jsonMarshal(GoList(1)), ""}

InitCached ==
    /\ lock = [k \in LockKeys |-> NoString]
    /\ cache \in {[k \in CacheKeys |->
                     IF k = GetFuzzyCacheKey(FirstKeyword)
                     THEN Expire(HSetReady(HSetLoading(NoHash, FirstKeyword), d),
                                 FuzzyCacheExpire)
                     ELSE NoHash] : d \in ReadyPayloads}
    /\ reqStatus = [k \in ReqStatusKeys |-> NoHash]
    /\ queue = <<>>
    /\ jobs = {}
    /\ req = [r \in ReqIds |-> IdleReq]
    /\ poll = IdlePoll
    /\ winPubs = [k \in LockKeys |-> 0]
    /\ loadingPubs = [k \in CacheKeys |-> 0]
    /\ epochHandles = [k \in CacheKeys |-> 0]
    /\ epochPubs = [k \in CacheKeys |-> 0]
    /\ orphan = [k \in CacheKeys |-> FALSE]
    /\ InitPool
    /\ InitMongo
    /\ InitNoReplica

SpecCached == InitCached /\ [][Next]_vars

(***************************************************************************)
(* The writers beside the refresh loop: submissions and the consumer write *)
(* to the store while a manager that found both replicas refreshes its     *)
(* list.                                                                   *)
(***************************************************************************)
InitWrite ==
    /\ lock = [k \in LockKeys |-> NoString]
    /\ cache = [k \in CacheKeys |-> NoHash]
    /\ reqStatus = [k \in ReqStatusKeys |-> NoHash]
    /\ queue = <<>>
    /\ jobs = {}
    /\ req = [r \in ReqIds |-> IdleReq]
    /\ poll = IdlePoll
    /\ winPubs = [k \in LockKeys |-> 0]
    /\ loadingPubs = [k \in CacheKeys |-> 0]
    /\ epochHandles = [k \in CacheKeys |-> 0]
    /\ epochPubs = [k \in CacheKeys |-> 0]
    /\ orphan = [k \in CacheKeys |-> FALSE]
    /\ InitPool
    /\ InitMongo
    /\ slaveClients = <<Conn(0, "localhost:6380"), Conn(0, "localhost:6381")>>
    /\ closedClients = {}
    /\ mu = MuFree
    /\ refresher = IdleRefresher
    /\ reader = [p \in Readers |-> IdleReader]

WriteNext == Submit \/ Consume \/ Refresh

SpecWrite == InitWrite /\ [][WriteNext]_vars

(***************************************************************************)
(* MongoDB: the search over the collections and deduplicateAndSort.        *)
(***************************************************************************)
MaxDocs == 3
MaxColls == 2
\* the limit GetMongoDataFuzzyByKeyword passes to deduplicateAndSort
SearchLimit == 50

\* the BSON values of the fields the code looks at: a string, a DateTime
\* (milliseconds since the epoch), and a field that is not there
Text(t) == [type |-> "string", s |-> t, ms |-> 0]
DateTime(ms) == [type |-> "datetime", s |-> "", ms |-> ms]
Missing == [type |-> "null", s |-> "", ms |-> 0]

\* the field hotitem: a map with title and crawledat, a value that is not a
\* map, or no field at all
Hotitem(title, crawledat) == [kind |-> "map", title |-> title, crawledat |-> crawledat]
ScalarHotitem == [kind |-> "string", title |-> Missing, crawledat |-> Missing]
NoHotitem == [kind |-> "absent", title |-> Missing, crawledat |-> Missing]

\* a document; id is its _id
Document(id, hotitem) == [id |-> id, hotitem |-> hotitem]

\* a document that passes only the test of its title
TitleIsString(doc) ==
    doc.hotitem.kind = "map" /\ doc.hotitem.title.type = "string"

\* the three checked type assertions: hotitem is a bson.M, title a string,
\* crawledat a primitive.DateTime
WellFormed(doc) ==
    /\ doc.hotitem.kind = "map"
    /\ doc.hotitem.title.type = "string"
    /\ doc.hotitem.crawledat.type = "datetime"

TitleOf(doc) == doc.hotitem.title.s
CrawledAtRaw(doc) == doc.hotitem.crawledat.ms

\* time.Unix(int64(crawledAtRaw)/1000, 0): the second the millisecond is in
UnixSeconds(ms) == ms \div 1000

\* the map seen after the loop over docs: the first document of a title,
\* replaced by a later one only when its second is After the kept one's
RECURSIVE SeenAfter(_)
SeenAfter(docs) ==
    IF docs = <<>> THEN <<>>
    ELSE LET seen == SeenAfter(SubSeq(docs, 1, Len(docs) - 1))
             doc == docs[Len(docs)]
         IN  IF ~WellFormed(doc) THEN seen
             ELSE IF TitleOf(doc) \notin DOMAIN seen
                  THEN (TitleOf(doc) :> doc) @@ seen
             ELSE IF UnixSeconds(CrawledAtRaw(doc))
                       > UnixSeconds(CrawledAtRaw(seen[TitleOf(doc)]))
                  THEN (TitleOf(doc) :> doc) @@ seen
             ELSE seen

\* what sort.Slice with timeI > timeJ can make of the values of the map:
\* each order of them in which no document comes before a later one
SortedByCrawledAt(S) ==
    {q \in [1..Cardinality(S) -> S] :
        /\ \A i, j \in 1..Cardinality(S) : i # j => q[i] # q[j]
        /\ \A i, j \in 1..Cardinality(S) :
              i < j => CrawledAtRaw(q[i]) >= CrawledAtRaw(q[j])}

\* deduplicateAndSort: the lists it can return (the order of documents with
\* equal crawledat is not determined)
deduplicateAndSort(docs, limit) ==
    LET seen == SeenAfter(docs)
        uniqueDocs == {seen[t] : t \in DOMAIN seen}
    IN  {IF Len(q) > limit THEN SubSeq(q, 1, limit) ELSE q :
            q \in SortedByCrawledAt(uniqueDocs)}

\* the call returns one of them
DedupCall ==
    /\ dedup.pc = "call"
    /\ \E out \in deduplicateAndSort(dedup.docs, dedup.limit) :
          dedup' = [dedup EXCEPT !.pc = "done", !.out = out]
    /\ UNCHANGED <<dispatcher, replica, search>>

\* the hotitem fields of the inputs: two titles at three instants, two of
\* them in one second, and the malformed ones
Hotitems ==
    {Hotitem(Text(t), DateTime(ms)) : t \in {"a", "b"}, ms \in {1000, 1500, 2000}}
    \cup {NoHotitem, ScalarHotitem,
          Hotitem(DateTime(2000), DateTime(2000)),
          Hotitem(Text("a"), Text("2000")),
          Hotitem(Text("a"), Missing)}

\* the argument lists: the document at position i has _id i
DocLists ==
    UNION {{[i \in 1..n |-> Document(i, h[i])] : h \in [1..n -> Hotitems]} :
              n \in 0..MaxDocs}

Limits == {1, 2, SearchLimit}

InitDedup ==
    /\ lock = [k \in LockKeys |-> NoString]
    /\ cache = [k \in CacheKeys |-> NoHash]
    /\ reqStatus = [k \in ReqStatusKeys |-> NoHash]
    /\ queue = <<>>
    /\ jobs = {}
    /\ req = [r \in ReqIds |-> IdleReq]
    /\ poll = IdlePoll
    /\ winPubs = [k \in LockKeys |-> 0]
    /\ loadingPubs = [k \in CacheKeys |-> 0]
    /\ epochHandles = [k \in CacheKeys |-> 0]
    /\ epochPubs = [k \in CacheKeys |-> 0]
    /\ orphan = [k \in CacheKeys |-> FALSE]
    /\ InitPool
    /\ InitNoReplica
    /\ search = IdleSearch
    /\ dedup \in {[IdleDedup EXCEPT !.pc = "call", !.docs = docs, !.limit = limit] :
                     docs \in DocLists, limit \in Limits}

SpecDedup == InitDedup /\ [][DedupCall]_vars

\* the collections of the database, and the lists ListCollectionNames can
\* return
CollNames == <<"weibo", "zhihu", "baidu">>
Listings == {SubSeq(CollNames, 1, n) : n \in 0..MaxColls}

\* what querySingleCollection can return for a collection: an error, or the
\* latest matching document of each title, latest first
ResultsOf(name) ==
    {<<>>,
     <<Document(<<name, 1>>, Hotitem(Text("a"), DateTime(2000)))>>,
     <<Document(<<name, 1>>, Hotitem(Text("a"), DateTime(1000)))>>,
     <<Document(<<name, 1>>, Hotitem(Text("b"), DateTime(1500))),
       Document(<<name, 2>>, Hotitem(Text("a"), DateTime(1000)))>>}

QueryOutcomes(name) ==
    {[results |-> <<>>, err |-> TRUE]}
    \cup {[results |-> l, err |-> FALSE] : l \in ResultsOf(name)}

\* the lists of a channel, appended one after the other
RECURSIVE Flatten(_)
Flatten(ch) == IF ch = <<>> THEN <<>> ELSE Head(ch) \o Flatten(Tail(ch))

\* channels made without a buffer
Unbuffered(names) == 0

\* make(chan []bson.M, len(collectionNames)) and make(chan error,
\* len(collectionNames)): the capacity of each channel
ChanCap(names) == Len(names)

\* ListCollectionNames; on an error the call returns (nil, err); otherwise
\* the two channels are made with room for one value per collection and one
\* goroutine per collection is started
SearchList(names, ok) ==
    /\ search.pc = "idle"
    /\ search' =
          IF ~ok
          THEN [IdleSearch EXCEPT !.pc = "done",
                                  !.ret = [list |-> <<>>, isNil |-> TRUE, err |-> TRUE]]
          ELSE [IdleSearch EXCEPT !.pc = "wait", !.names = names,
                                  !.colls = [i \in 1..Len(names) |->
                                               [pc |-> "query", results |-> <<>>,
                                                err |-> FALSE]],
                                  !.wg = Len(names)]
    /\ UNCHANGED <<dispatcher, replica, dedup>>

\* goroutine i: querySingleCollection returns
SearchQuery(i, outcome) ==
    /\ search.pc = "wait"
    /\ i \in 1..Len(search.names)
    /\ search.colls[i].pc = "query"
    /\ search' = [search EXCEPT !.colls[i] = [pc |-> "send", results |-> outcome.results,
                                               err |-> outcome.err]]
    /\ UNCHANGED <<dispatcher, replica, dedup>>

\* goroutine i: the send on errChan or on resultChan, which waits while the
\* channel is full, and the deferred wg.Done()
SearchSend(i) ==
    /\ search.pc = "wait"
    /\ i \in 1..Len(search.names)
    /\ search.colls[i].pc = "send"
    /\ IF search.colls[i].err
       THEN /\ Len(search.errChan) < ChanCap(search.names)
            /\ search' = [search EXCEPT !.colls[i].pc = "done",
                                         !.errChan = Append(@, search.names[i]),
                                         !.wg = @ - 1]
       ELSE /\ Len(search.resultChan) < ChanCap(search.names)
            /\ search' = [search EXCEPT !.colls[i].pc = "done",
                                         !.resultChan = Append(@, search.colls[i].results),
                                         !.wg = @ - 1]
    /\ UNCHANGED <<dispatcher, replica, dedup>>

\* a search that gives up when a collection's query has failed
SearchCollectFailFast ==
    /\ search.pc = "wait"
    /\ search.wg = 0
    /\ IF search.errChan # <<>>
       THEN search' = [search EXCEPT !.pc = "done",
                          !.ret = [list |-> <<>>, isNil |-> TRUE, err |-> TRUE]]
       ELSE \E finalResults \in deduplicateAndSort(Flatten(search.resultChan), SearchLimit) :
              search' = [search EXCEPT !.pc = "done",
                           !.ret = [list |-> finalResults, isNil |-> FALSE, err |-> FALSE]]
    /\ UNCHANGED <<dispatcher, replica, dedup>>

\* wg.Wait() returns; both channels are closed, the errors are logged, the
\* result lists are appended in the order they were sent, and the call
\* returns (deduplicateAndSort(allResults, 50), nil)
SearchCollect ==
    /\ search.pc = "wait"
    /\ search.wg = 0
    /\ \E finalResults \in deduplicateAndSort(Flatten(search.resultChan), SearchLimit) :
          search' = [search EXCEPT !.pc = "done",
                       !.ret = [list |-> finalResults, isNil |-> FALSE, err |-> FALSE]]
    /\ UNCHANGED <<dispatcher, replica, dedup>>

SearchNext ==
    \/ \E names \in Listings, ok \in BOOLEAN : SearchList(names, ok)
    \/ \E i \in 1..MaxColls :
          \/ \E outcome \in QueryOutcomes(CollNames[i]) : SearchQuery(i, outcome)
          \/ SearchSend(i)
    \/ SearchCollect

SpecSearch == Init /\ [][SearchNext]_vars

\* the same under the Go scheduler, which runs a goroutine that can take a
\* step; querySingleCollection returns, by the 5 s deadline of ctx at the
\* latest
SpecSearchFair == Init /\ [][SearchNext]_vars /\ WF_vars(SearchNext)

(***************************************************************************)
(* Properties.                                                             *)
(***************************************************************************)
InHandler(r) == req[r].pc \in {"setnx", "hset", "expire", "publish", "hsetReq", "expireReq"}
AfterSetNX(r) == req[r].pc \in {"hset", "expire", "publish", "hsetReq", "expireReq"}
HandleOf(r) == reqStatus[ReqStatusKey(GenerateReqID(r))]

\* C1: under one lock (from the SetNX that created it to its expiry 5 s
\* later), the calls for its keyword whose SetNX and publish both fall under
\* that lock publish at most one WorkItem between them, whatever the order of
\* their steps.
C1_DedupWithinLockWindow == \A k \in LockKeys : winPubs[k] <= 1

\* C1's case: two calls for one keyword met the same lock, which is still
\* held; one has published and the other was refused the lock.
C1_Witness ==
    \E r1, r2 \in ReqIds :
        /\ r1 # r2
        /\ req[r1].keyword = req[r2].keyword
        /\ AfterSetNX(r1) /\ AfterSetNX(r2)
        /\ req[r1].published /\ ~req[r2].lockSuccess
        /\ req[r1].lockSeen = req[r2].lockSeen
        /\ lock[GetFuzzyLockKey(req[r1].keyword)].exists
        /\ lock[GetFuzzyLockKey(req[r1].keyword)].val = req[r1].lockSeen
        /\ winPubs[GetFuzzyLockKey(req[r1].keyword)] = 1

\* C2: while an entry stays loading (from the write that made it loading to
\* the ready write or its expiry) at most one WorkItem is published for its
\* key, also when the lock runs out while a call still holds the status it
\* read earlier.
C2_OnePublishWhileLoading == \A k \in CacheKeys : loadingPubs[k] <= 1

\* the rank of an entry's status: absent < loading < {ready, failed}
Rank(h) ==
    IF ~h.exists THEN 0
    ELSE IF h.status = "loading" THEN 1
    ELSE 2

\* C3: in every step the status of every entry stays or moves forward in the
\* order absent < loading < {ready, failed}; it goes back to absent only by
\* the expiry of the key.
C3_StatusMonotone ==
    [][\A k \in CacheKeys :
          \/ Rank(cache'[k]) >= Rank(cache[k])
          \/ k \in UNION {Expiring(CacheKeys, cache, d) : d \in Lifetimes}
               /\ ~cache'[k].exists]_vars

\* C4: a call is on the publishing path (or has published) only if its own
\* SetNX succeeded and the status it read was not loading; a call that read
\* loading, or was refused the lock, goes on to store its handle without
\* having published, and the handle it stores names the cache key of its
\* keyword.
C4_PublishOnlyWithLockAndNotLoading ==
    \A r \in ReqIds :
        /\ (req[r].pc \in {"hset", "expire", "publish"} \/ req[r].published)
              => req[r].lockSuccess /\ req[r].status # "loading"
        /\ (AfterSetNX(r) /\ (req[r].status = "loading" \/ ~req[r].lockSuccess))
              => req[r].pc \in {"hsetReq", "expireReq"} /\ ~req[r].published
        /\ req[r].pc = "expireReq"
              => /\ HandleOf(r).exists
                 /\ HandleOf(r).status = "pending"
                 /\ HandleOf(r).keyword = req[r].keyword
                 /\ HandleOf(r).cache_key = GetFuzzyCacheKey(req[r].keyword)
        /\ (req[r].pc = "done" /\ req[r].resp.code = 1)
              => /\ req[r].resp.req_id = GenerateReqID(r)
                 /\ HandleOf(r).exists
                       => /\ HandleOf(r).ttl # NoExpiry
                          /\ HandleOf(r).cache_key = GetFuzzyCacheKey(req[r].keyword)

\* C4's case: a call took the lock itself but had read loading; it has stored
\* its handle and published nothing.
C4_Witness ==
    \E r \in ReqIds :
        /\ req[r].pc = "expireReq"
        /\ req[r].status = "loading"
        /\ req[r].lockSuccess
        /\ ~req[r].published
        /\ HandleOf(r).exists
        /\ queue = <<>> /\ jobs = {}

\* C5: a call whose cache read found the entry ready has answered with the
\* payload: it is at no later step of the handler (no lock attempt, no write,
\* no publish, no handle).
C5_ReadyReturnsAtOnce == \A r \in ReqIds : req[r].seen = "ready" => ~InHandler(r)

\* no call for the keyword died or was answered with an error
NoFailedCall(keyword) ==
    \A q \in ReqIds :
        req[q].keyword = keyword => req[q].pc # "crashed" /\ req[q].resp.code # 500

\* C6: when two calls for one keyword, both made before a worker wrote the
\* result, have been given handles, the handles are two keys naming the same
\* cache key and exactly one WorkItem was published by those calls.
C6_TwoHandlesOneWorkItem ==
    \A k \in Keywords :
        (epochHandles[GetFuzzyCacheKey(k)] >= 2 /\ NoFailedCall(k))
            => /\ epochPubs[GetFuzzyCacheKey(k)] = 1
               /\ \A r1, r2 \in ReqIds :
                     (HandleOf(r1).exists /\ HandleOf(r2).exists
                        /\ HandleOf(r1).keyword = k /\ HandleOf(r2).keyword = k)
                     => HandleOf(r1).cache_key = HandleOf(r2).cache_key

\* nothing is left to run: no call in progress, no message queued or being
\* processed
Quiescent ==
    /\ queue = <<>>
    /\ jobs = {}
    /\ \A r \in ReqIds : ~InHandler(r)

\* C7 (as a finite run refutes it): when the consumer and the workers have
\* run to the end and no publish failed, every handle that has not expired
\* polls ready: with nothing left to run, a handle that does not poll ready
\* now never will.
C7_HandlesResolve ==
    (Quiescent /\ \A q \in ReqIds : req[q].resp.code # 500)
        => \A r \in ReqIds :
              HandleOf(r).exists
                 => /\ cache[HandleOf(r).cache_key].exists
                    /\ cache[HandleOf(r).cache_key].status = "ready"
                    /\ PollAnswer(GenerateReqID(r), cache[HandleOf(r).cache_key]).code = 0

\* C8: a call whose publish fails answers 500, stores no handle and leaves
\* the lock as it is; a lock key goes away only by the expiry of its TTL.
C8_PublishFailureKeepsLock ==
    /\ [][\A r \in ReqIds :
            (req[r].pc = "publish" /\ req'[r].pc = "done")
               => /\ req'[r].resp.code = 500
                  /\ lock' = lock
                  /\ reqStatus' = reqStatus
                  /\ ~HandleOf(r).exists]_vars
    /\ [][\A k \in LockKeys :
            (lock[k].exists /\ lock'[k] # lock[k])
               => k \in UNION {Expiring(LockKeys, lock, d) : d \in Lifetimes}
                  \/ lock'[k].ttl < lock[k].ttl]_vars
    /\ [](\A r \in ReqIds :
            (req[r].pc = "done" /\ req[r].resp.code = 500) => ~HandleOf(r).exists)

\* C8's case: a call was answered 500 after its publish failed; its lock is
\* still held and it has no handle.
C8_Witness ==
    \E r \in ReqIds :
        /\ req[r].pc = "done"
        /\ req[r].resp.code = 500
        /\ lock[GetFuzzyLockKey(req[r].keyword)].exists
        /\ lock[GetFuzzyLockKey(req[r].keyword)].val = GenerateReqID(MaxReqs + r)
        /\ ~HandleOf(r).exists

\* C9: a call made after the lock has run out, for a key whose last lock
\* holder marked the entry loading and then died or failed to publish, and
\* which takes the lock, publishes a WorkItem.
C9_HealsAfterLockExpiry ==
    \A r \in ReqIds :
        (req[r].healing /\ req[r].lockSuccess /\ AfterSetNX(r))
            => req[r].pc \in {"hset", "expire", "publish"} \/ req[r].published

Queued == {queue[i] : i \in 1..Len(queue)}

\* C11: the write a worker makes for a job carries status ready and the
\* payload when the search succeeded, and status failed (never ready) when
\* the search returned an error.
C11_WorkerStatusBySearchOutcome ==
    [][\A j \in jobs, outcome \in SearchOutcomes :
          WorkerHSet(j, outcome)
             => LET entry == cache'[GetFuzzyCacheKey(j.keyword)]
                IN  IF outcome.err
                    THEN entry.status = "failed"
                    ELSE entry.status = "ready" /\ entry.data = jsonMarshal(outcome.list)]_vars

\* C12: in the step that acknowledges the message of a parsed WorkItem, the
\* entry of its key holds a result: it exists with status ready.
C12_AckOnlyAfterPersist ==
    [][\A j \in jobs :
          WorkerExpireAck(j)
             => /\ cache'[GetFuzzyCacheKey(j.keyword)].exists
                /\ cache'[GetFuzzyCacheKey(j.keyword)].status = "ready"]_vars

C14_AtMostEightInFlight ==
    /\ [](Cardinality(jobs) <= Concurrency /\ sem = Cardinality(jobs))
    /\ [][Len(queue') < Len(queue) => sem < Concurrency /\ sem' = sem + 1]_vars
    /\ [][\A j \in jobs :
            (\A k \in jobs' : k.id # j.id) => sem' = sem - 1]_vars

\* C14's case: eight jobs are in flight, the ninth message waits in the
\* queue, and no slot is free.
C14_Witness ==
    /\ Cardinality(jobs) = Concurrency
    /\ sem = Concurrency
    /\ Len(queue) >= 1
    /\ ~ENABLED Deliver(1)

\* C15: the step in which a call leaves the HSet of step 5 leaves the entry
\* of its key in the store with status loading, so that the publish, which
\* comes after it, never precedes the mark.
C15_LoadingBeforePublish ==
    [][\A r \in ReqIds :
          (req[r].pc = "hset" /\ req'[r].pc \in {"expire", "publish"})
             => /\ cache'[GetFuzzyCacheKey(req[r].keyword)].exists
                /\ cache'[GetFuzzyCacheKey(req[r].keyword)].status = "loading"]_vars

\* a selectReadClient call of reader p returns in this step
Returns(p) == reader[p].pc \in {"locked", "intn"} /\ reader'[p].outcome = "returned"

\* C16: a selection made on a non-empty replica list returns a member of the
\* list as it is at the return, no refresh is between its lock and its
\* unlock at that moment, and the connection is open; whenever no refresh
\* holds the lock, no member of the list has been closed (the list is the
\* one the last completed refresh installed, whole).
C16_SelectsFromCurrentSet ==
    /\ [][\A p \in Readers :
            (Returns(p) /\ Len(slaveClients) > 0)
               => /\ reader'[p].client \in Range(slaveClients)
                  /\ reader'[p].client \notin closedClients
                  /\ ~mu.writer
                  /\ refresher.pc = "wait"]_vars
    /\ [](~mu.writer => Range(slaveClients) \cap closedClients = {})
    /\ [](\A p \in Readers : reader[p].outcome = "panic" => reader[p].client = NoClient)

\* C16's case: after a refresh has installed a list of two, a selection
\* returned its second member.
C16_Witness ==
    \E p \in Readers :
        /\ reader[p].outcome = "returned"
        /\ Len(slaveClients) = 2
        /\ reader[p].client = slaveClients[2]
        /\ reader[p].client.gen >= 1
        /\ refresher.pc = "wait"

\* C17: a selection made while the replica list is empty returns the
\* primary connection and no error, and no selection ever returns an error.
C17_EmptySetFallsBackToMaster ==
    /\ [][\A p \in Readers :
            (Returns(p) /\ Len(slaveClients) = 0)
               => reader'[p].client = masterClient /\ ~reader'[p].err]_vars
    /\ [](\A p \in Readers : ~reader[p].err)
    /\ [](\A clients \in InitialSets :
             \A idx \in 0..Len(clients) :
                (idx = 0 <=> clients = <<>>)
                   => /\ ~selectReadClient(clients, idx).err
                      /\ ~GetSlaveClient(selectReadClient(clients, idx)).err)

\* C17's case: the list went from two replicas to none in the run, and a
\* selection made afterwards returned the primary.
C17_Witness ==
    \E p \in Readers :
        /\ slaveClients = <<>>
        /\ Cardinality({c \in closedClients : c.gen = 0}) = 2
        /\ reader[p].outcome = "returned"
        /\ reader[p].client = masterClient
        /\ ~reader[p].err

\* C18: a refresh changes the replica list, and closes connections of it,
\* only when at least one candidate passed its probe.
C18_SwapOnlyWithReplicas ==
    [][(\/ slaveClients' # slaveClients
        \/ closedClients' \cap Range(slaveClients) # closedClients \cap Range(slaveClients))
          => refresher.slaveClients # <<>>]_vars

\* the sentinel's answer counts as a failure
Failed(reply) ==
    \/ reply.kind # "slaves"
    \/ \A i \in 1..Len(reply.slaves) :
          safeString(reply.slaves[i].ip) = "" \/ safeString(reply.slaves[i].port) = ""

\* C19: getSlaveAddrs reports an error exactly when the command failed, the
\* answer was not a list or no entry of it was valid; an iteration that got
\* the error changes neither the replica list nor the closed connections of
\* it, and ends with the lock free and the loop waiting for its next tick.
C19_FailedQueryKeepsSet ==
    /\ [](\A reply \in SentinelReplies : getSlaveAddrs(reply).err <=> Failed(reply))
    /\ [][refresher.err
            => /\ slaveClients' = slaveClients
               /\ closedClients' \cap Range(slaveClients) = closedClients \cap Range(slaveClients)]_vars
    /\ [][(refresher.pc = "check" /\ refresher.err /\ refresher' # refresher)
            => refresher'.pc = "wait" /\ ~mu'.writer]_vars
    /\ [](refresher.err => refresher.pc \in {"probe", "check", "wait"})

\* C19's case: an iteration whose query failed has ended; the two replicas
\* are still the list, none closed, and the loop waits for the next tick.
C19_Witness ==
    /\ refresher.pc = "wait"
    /\ refresher.err
    /\ refresher.gen = 1
    /\ Len(slaveClients) = 2
    /\ closedClients = {}
    /\ mu = MuFree

\* C20: in no state does the current replica list contain a closed
\* connection.
C20_NoClosedConnectionInSet == Range(slaveClients) \cap closedClients = {}

C22_ConstructionFailsOnlyWithoutPrimary ==
    [][\A masterUp \in BOOLEAN, reply \in SentinelReplies, up \in SUBSET ReplicaHosts :
          NewRedisManager(masterUp, reply, up) =>
              /\ refresher'.pc = "failed" <=> ~masterUp
              /\ masterUp /\ getSlaveAddrs(reply).err =>
                     refresher'.pc = "wait" /\ slaveClients' = <<>>]_vars

\* C23: a lock goes away only by the expiry of its TTL.  A SetNX succeeds
\* exactly when the lock key is absent, and then stores the caller's value
\* with 5 s to live; a SetNX that finds the key changes nothing.  A held lock
\* keeps its value, and its remaining life is 5 s less the time passed since
\* the SetNX that created it: it is there, and refuses every SetNX, until
\* 5 s have passed, and it is gone, so that the next SetNX succeeds, once
\* they have.
C23_LockOnlyExpires ==
    /\ [](\A k \in LockKeys : lock[k].exists => lock[k].ttl \in 1..LockExpire)
    /\ [][\A r \in ReqIds :
            (req[r].pc = "setnx" /\ req'[r].pc # "setnx")
               => LET k == GetFuzzyLockKey(req[r].keyword)
                  IN  /\ req'[r].lockSuccess <=> ~lock[k].exists
                      /\ req'[r].lockSuccess =>
                             lock' = [lock EXCEPT ![k] =
                                         [exists |-> TRUE, ttl |-> LockExpire,
                                          val |-> GenerateReqID(MaxReqs + r)]]
                      /\ ~req'[r].lockSuccess => lock' = lock]_vars
    /\ [][\A k \in LockKeys :
            (lock[k].exists /\ lock'[k] # lock[k])
               => \E d \in Lifetimes :
                     /\ Pass(d)
                     /\ lock'[k] = IF lock[k].ttl <= d THEN NoString
                                   ELSE [lock[k] EXCEPT !.ttl = lock[k].ttl - d]]_vars

\* two calls for one keyword have both taken the lock: the first one's lock
\* ran out before the second one's SetNX, whose value the key now holds
C23_Witness ==
    \E r1, r2 \in ReqIds :
        /\ r1 # r2
        /\ req[r1].keyword = req[r2].keyword
        /\ AfterSetNX(r1) /\ req[r1].lockSuccess
        /\ AfterSetNX(r2) /\ req[r2].lockSuccess
        /\ lock[GetFuzzyLockKey(req[r2].keyword)].exists
        /\ lock[GetFuzzyLockKey(req[r2].keyword)].val = GenerateReqID(MaxReqs + r2)

C25_ExpiredEntryIsRecomputed ==
    /\ [][\A d \in Lifetimes, k \in CacheKeys :
            (Pass(d) /\ cache[k].exists /\ cache[k].ttl # NoExpiry /\ cache[k].ttl <= d)
               => /\ cache'[k] = NoHash
                  /\ GetDataByKey(cache'[k]) = [data |-> GoNil, status |-> ""]]_vars
    /\ [][\A r \in ReqIds, keyword \in Keywords :
            (SubmitGetData(r, keyword) /\ ~cache[GetFuzzyCacheKey(keyword)].exists)
               => /\ req'[r].pc = "setnx"
                  /\ req'[r].status = ""
                  /\ req'[r].seen = "absent"]_vars
    /\ [][\A r \in ReqIds :
            (SubmitSetNX(r) /\ req[r].seen = "absent"
                            /\ ~lock[GetFuzzyLockKey(req[r].keyword)].exists)
               => req'[r].lockSuccess /\ req'[r].pc = "hset"]_vars
    /\ [][\A r \in ReqIds :
            (SubmitHSetLoading(r) /\ req[r].seen = "absent")
               => cache'[GetFuzzyCacheKey(req[r].keyword)].status = "loading"]_vars
    /\ [][\A r \in ReqIds, userType \in UserTypes :
            SubmitPublish(r, userType)
               => /\ Len(queue') = Len(queue) + 1
                  /\ queue'[Len(queue')].keyword = req[r].keyword]_vars
    /\ [](\A r \in ReqIds :
            (req[r].seen = "absent" /\ AfterSetNX(r) /\ req[r].lockSuccess)
               => \/ req[r].pc \in {"hset", "expire", "publish"}
                  \/ req[r].published)

\* a submission was answered with the payload of the ready entry; after the
\* entry's TTL ran out another one for the keyword found it absent, took the
\* lock, marked it loading and published
C25_Witness ==
    \E r1, r2 \in ReqIds :
        /\ req[r1].pc = "done" /\ req[r1].resp = RespData(GoList(1))
        /\ req[r1].keyword = FirstKeyword
        /\ req[r2].keyword = FirstKeyword
        /\ req[r2].seen = "absent" /\ req[r2].lockSuccess /\ req[r2].published
        /\ cache[GetFuzzyCacheKey(FirstKeyword)].status = "loading"
        /\ \E i \in 1..Len(queue) : queue[i] = WorkItem(r2, FirstKeyword, 0)

\* C26: no handle is orphaned: the cache TTL is at least the handle TTL, and
\* no cache entry runs out while a handle that references it, issued while
\* the entry was there, has life left.
C26_NoOrphanedHandle ==
    /\ [](FuzzyCacheExpire >= ReqStatusExpire)
    /\ [][\A id \in ReqIds :
            LET h == HandleOf(id)
                k == h.cache_key
            IN  (h.exists /\ h.ttl # NoExpiry /\ reqStatus'[ReqStatusKey(GenerateReqID(id))].exists)
                   => ~(cache[k].exists /\ ~cache'[k].exists)]_vars

\* C27: a submission that finds a ready entry whose payload cannot be
\* deserialized treats it as a miss: the read gives it what the read of an
\* absent key gives (no payload, the empty status), it answers neither an
\* error nor an empty payload but goes on to SetNX, which succeeds exactly
\* when the lock is free; having acquired the lock it marks the entry
\* loading and publishes the recomputation.
C27_UnreadablePayloadIsAMiss ==
    /\ [][\A r \in ReqIds, keyword \in Keywords :
            LET entry == cache[GetFuzzyCacheKey(keyword)]
            IN  (SubmitGetData(r, keyword) /\ entry.exists /\ entry.status = "ready"
                    /\ jsonUnmarshal(entry.data).isNil)
                   => /\ GetDataByKey(entry) = GetDataByKey(NoHash)
                      /\ req'[r].pc = "setnx"
                      /\ req'[r].status = ""
                      /\ req'[r].resp = NoResp
                      /\ req'[r].seen = "ready"]_vars
    /\ [][\A r \in ReqIds :
            (SubmitSetNX(r) /\ req[r].seen = "ready")
               => /\ req'[r].lockSuccess <=> ~lock[GetFuzzyLockKey(req[r].keyword)].exists
                  /\ req'[r].pc = IF req'[r].lockSuccess THEN "hset" ELSE "hsetReq"]_vars
    /\ [](\A r \in ReqIds :
            /\ (req[r].seen = "ready" /\ AfterSetNX(r) /\ req[r].lockSuccess)
                   => \/ req[r].pc \in {"hset", "expire", "publish"}
                      \/ req[r].published
            /\ (req[r].pc = "done" /\ req[r].resp.code = 0) => ~req[r].resp.data.isNil)

\* a submission read the ready entry with the empty text as payload, took
\* the lock, marked the entry loading (the data field is as it was) and
\* published
C27_Witness ==
    \E r \in ReqIds :
        /\ req[r].keyword = FirstKeyword
        /\ req[r].seen = "ready" /\ req[r].lockSuccess /\ req[r].published
        /\ cache[GetFuzzyCacheKey(FirstKeyword)].status = "loading"
        /\ cache[GetFuzzyCacheKey(FirstKeyword)].data = ""
        /\ \E i \in 1..Len(queue) : queue[i] = WorkItem(r, FirstKeyword, 0)

\* a document whose hotitem is absent or not a map, whose title is not a
\* string or whose crawledat is not a timestamp
Malformed(doc) ==
    \/ doc.hotitem.kind # "map"
    \/ doc.hotitem.title.type # "string"
    \/ doc.hotitem.crawledat.type # "datetime"

NotMalformed(doc) == ~Malformed(doc)

\* the well-formed documents of the call's argument
WellFormedInputs ==
    {dedup.docs[i] : i \in {x \in 1..Len(dedup.docs) : NotMalformed(dedup.docs[x])}}

\* C29: deduplicateAndSort keeps the latest document of each title: what it
\* returns are well-formed documents of its argument, no two of one title,
\* each with the largest crawledat, in milliseconds, of the well-formed
\* documents of its title; they are in descending order of crawledat, there
\* are at most limit of them, and there is one for every title unless limit
\* cuts the list.
C29_KeepsLatestPerTitle ==
    dedup.pc = "done" =>
        LET out == dedup.out
            titles == {TitleOf(d) : d \in WellFormedInputs}
        IN  /\ \A i \in 1..Len(out) : out[i] \in WellFormedInputs
            /\ \A i, j \in 1..Len(out) : i # j => TitleOf(out[i]) # TitleOf(out[j])
            /\ \A i \in 1..Len(out) :
                  \A d \in WellFormedInputs :
                     TitleOf(d) = TitleOf(out[i]) => CrawledAtRaw(d) <= CrawledAtRaw(out[i])
            /\ \A i, j \in 1..Len(out) :
                  i < j => CrawledAtRaw(out[i]) >= CrawledAtRaw(out[j])
            /\ Len(out) <= dedup.limit
            /\ Len(out) = IF Cardinality(titles) > dedup.limit
                          THEN dedup.limit ELSE Cardinality(titles)

\* C30: deduplicateAndSort drops the documents whose hotitem is absent or
\* not a map, whose title is not a string or whose crawledat is not a
\* timestamp: the call returns, none of them is in what it returns, and what
\* it returns is what it can return for the argument without them.
C30_MalformedDocumentsDropped ==
    /\ dedup.pc = "call" => ENABLED DedupCall
    /\ dedup.pc = "done" =>
          /\ \A i \in 1..Len(dedup.out) : NotMalformed(dedup.out[i])
          /\ dedup.out \in deduplicateAndSort(SelectSeq(dedup.docs, NotMalformed),
                                               dedup.limit)

\* the argument holds a document of title "a", then one of that title whose
\* crawledat is a string, then one with no hotitem: the first is returned
C30_Witness ==
    /\ dedup.pc = "done"
    /\ Len(dedup.docs) = 3
    /\ dedup.docs[1].hotitem = Hotitem(Text("a"), DateTime(1000))
    /\ dedup.docs[2].hotitem = Hotitem(Text("a"), Text("2000"))
    /\ dedup.docs[3].hotitem = NoHotitem
    /\ dedup.out = <<dedup.docs[1]>>

\* the goroutines whose query succeeded
Succeeded == {i \in 1..Len(search.names) : ~search.colls[i].err}

\* the results of the collections that succeeded, appended in any order
UnionsOfSucceeded ==
    {Flatten([k \in 1..Cardinality(Succeeded) |-> search.colls[p[k]].results]) :
        p \in {q \in [1..Cardinality(Succeeded) -> Succeeded] :
                  \A a, b \in 1..Cardinality(Succeeded) : a # b => q[a] # q[b]}}

\* C28: the search fails only when the collections cannot be listed: then it
\* returns (nil, err).  Otherwise, whichever of the per-collection queries
\* fail, it goes on once every goroutine has finished and returns no error
\* and the deduplicateAndSort, with limit 50, of the results of exactly the
\* collections whose query succeeded.
C28_SearchSurvivesCollectionFailures ==
    /\ [][\A names \in Listings :
            /\ SearchList(names, FALSE) =>
                  search'.pc = "done" /\ search'.ret.err /\ search'.ret.isNil
            /\ SearchList(names, TRUE) => search'.pc = "wait"]_vars
    /\ [](search.pc = "wait" /\ search.wg = 0 => ENABLED SearchCollect)
    /\ [](search.pc = "done" =>
             IF search.ret.err
             THEN search.ret.isNil /\ search.colls = <<>>
             ELSE /\ ~search.ret.isNil
                  /\ \A i \in 1..Len(search.names) : search.colls[i].pc = "done"
                  /\ search.ret.list \in
                        UNION {deduplicateAndSort(u, SearchLimit) : u \in UnionsOfSucceeded})

\* of two collections the query of the first failed; the search returned,
\* without an error, the documents of the second
C28_Witness ==
    /\ search.pc = "done"
    /\ ~search.ret.err
    /\ Len(search.names) = 2
    /\ search.colls[1].err
    /\ ~search.colls[2].err
    /\ Len(search.colls[2].results) = 2
    /\ Len(search.ret.list) = 2
    /\ \A i \in 1..2 : \E j \in 1..2 : search.ret.list[i] = search.colls[2].results[j]

\* C31: the refresh holds the exclusive lock for the swap only: while it
\* queries the sentinel and probes the addresses the writer side of the
\* mutex is free, and a selection that is not in progress can take the read
\* lock.
C31_RefreshLocksOnlyForSwap ==
    [](refresher.pc \in {"addrs", "probe", "check"}
          => /\ ~mu.writer
             /\ \A p \in Readers : reader[p].pc = "idle" => ENABLED SelectRLock(p))

\* C34: at most one selection is inside r.rand.Intn at a time.
C34_OneCallerInIntn ==
    Cardinality({p \in Readers : reader[p].pc = "intn"}) <= 1

\* C33: no command is sent on a closed connection: the client a selection
\* returned is open for as long as the caller has not finished its read on
\* it, and the read finds it open.
C33_NoReadOnClosedConnection ==
    \A p \in Readers :
        /\ reader[p].outcome = "returned" => reader[p].client \notin closedClients
        /\ reader[p].outcome # "closed"

\* the deliveries of message id that are waiting in the queue or held,
\* unacknowledged, by a worker
Waiting(id) == {i \in 1..Len(queue) : queue[i].id = id}
Unacked(id) == {j \in jobs : j.id = id}

C35_UnparseableMessageDropped ==
    [][/\ \A j \in jobs :
             (j.pc = "parseErr" /\ j \notin jobs')
             => /\ cache' = cache
                /\ lock' = lock
                /\ reqStatus' = reqStatus
                /\ queue' = queue
                /\ Unacked(j.id)' = {}
       /\ \A id \in BadPositions :
             (Unacked(id) = {} /\ Waiting(id) = {})
             => (Unacked(id)' = {} /\ Waiting(id)' = {})]_vars

\* the unreadable message was delivered and dropped while the entry was
\* still loading
C35_Witness ==
    /\ queue = <<>>
    /\ \A j \in jobs : j.keyword # NotJSON
    /\ cache[GetFuzzyCacheKey(FirstKeyword)].status = "loading"

\* the goroutines of the fan-out that have sent, with and without an error
Sent == {i \in 1..Len(search.names) : search.colls[i].pc = "done"}
SentErr == {i \in Sent : search.colls[i].err}

\* C36: the fan-out terminates without deadlock: a goroutine that has its
\* value can always send it, with no receiver; each goroutine that has
\* finished has put one value on one of the two channels; the wait group
\* counts the goroutines still running; the channels are closed only when
\* every sender has finished; and the call returns.
C36_FanOutTerminates ==
    /\ [](search.pc = "wait"
            => /\ \A i \in 1..Len(search.names) :
                     search.colls[i].pc = "send" => ENABLED SearchSend(i)
               /\ search.wg = Len(search.names) - Cardinality(Sent)
               /\ search.wg = 0 => ENABLED SearchCollect)
    /\ [](/\ Len(search.errChan) = Cardinality(SentErr)
          /\ Len(search.resultChan) = Cardinality(Sent \ SentErr)
          /\ Len(search.errChan) <= Len(search.names)
          /\ Len(search.resultChan) <= Len(search.names))
    /\ [](search.pc = "done" => Sent = 1..Len(search.names))
    /\ <>(search.pc = "done")

\* a search of two collections has returned, one query failed and one not
C36_Witness ==
    /\ search.pc = "done"
    /\ Len(search.names) = 2
    /\ Len(search.errChan) = 1
    /\ Len(search.resultChan) = 1

=============================================================================
